---- MODULE Spec2Model ----
(***************************************************************************)
(* Forgepad AI provider orchestration: AIService.sendMessage with its      *)
(* per-attempt timeout (withTimeout), failure classification               *)
(* (classifyError), the three provider adapters and the secret/preference  *)
(* store they read.                                                         *)
(*                                                                         *)
(* Text is modelled character by character (a message is a sequence of    *)
(* one-character strings) so that toLowerCase and String.includes are      *)
(* computed, not assumed.                                                  *)
(***************************************************************************)
EXTENDS Integers, Sequences, FiniteSets, TLC

(***************************************************************************)
(* Bounds of the model                                                     *)
(***************************************************************************)
\* the short per-attempt timeout a caller may pass in options.timeoutMs
ShortTimeout == 2
\* largest elapsed time reached by single ticks before the clock jumps to
\* the neighbourhood of the deadline
MaxTick == 2
\* largest number of fragments in a failure message given to classifyError
MaxFragments == 2
\* largest number of events published on the runtime event bus
MaxPublished == 2
\* longest key given to validateKey
MaxKeyLength == 21

(***************************************************************************)
(* Character strings                                                       *)
(*                                                                         *)
(* A message is kept as the list of the pieces it was built from (the      *)
(* parts of a template literal); TextOf spells it out character by         *)
(* character, and the string operations work on that spelling.             *)
(***************************************************************************)
\* the patterns classifyError looks for
S_missing == <<"m","i","s","s","i","n","g">>
S_invalid_key == <<"i","n","v","a","l","i","d"," ","k","e","y">>
S_unauthorized == <<"u","n","a","u","t","h","o","r","i","z","e","d">>
S_401 == <<"4","0","1">>
S_timeout == <<"t","i","m","e","o","u","t">>
S_429 == <<"4","2","9">>
S_rate == <<"r","a","t","e">>
S_network == <<"n","e","t","w","o","r","k">>
S_fetch == <<"f","e","t","c","h">>
S_provider == <<"p","r","o","v","i","d","e","r">>

\* the spelling of the pieces messages are built from
S_gemini == <<"g","e","m","i","n","i">>
S_openai == <<"o","p","e","n","a","i">>
S_anthropic == <<"a","n","t","h","r","o","p","i","c">>
S_request_timed_out_after == <<" ","r","e","q","u","e","s","t"," ","t","i","m","e","d"," ","o","u","t"," ","a","f","t","e","r"," ">>
S_ms == <<"m","s">>
S_request_failed == <<" ","r","e","q","u","e","s","t"," ","f","a","i","l","e","d">>
S_API_Key_missing == <<" ","A","P","I"," ","K","e","y"," ","m","i","s","s","i","n","g">>
S_validation_failed == <<"S","t","r","u","c","t","u","r","e","d"," ","o","u","t","p","u","t"," ","v","a","l","i","d","a","t","i","o","n"," ","f","a","i","l","e","d">>
S_no_providers == <<"N","o"," ","p","r","o","v","i","d","e","r","s"," ","a","v","a","i","l","a","b","l","e">>
S_unexpected_end == <<"U","n","e","x","p","e","c","t","e","d"," ","e","n","d"," ","o","f"," ","J","S","O","N"," ","i","n","p","u","t">>
S_http_401 == <<"H","T","T","P"," ","4","0","1"," ","U","n","a","u","t","h","o","r","i","z","e","d">>
S_network_error == <<"N","e","t","w","o","r","k"," ","e","r","r","o","r">>
S_OpenAI == <<"O","p","e","n","A","I">>
S_Anthropic == <<"A","n","t","h","r","o","p","i","c">>

Spelling == ("gemini" :> S_gemini) @@ ("openai" :> S_openai) @@ ("anthropic" :> S_anthropic) @@ (" request timed out after " :> S_request_timed_out_after) @@ ("ms" :> S_ms) @@ (" request failed" :> S_request_failed) @@ (" API Key missing" :> S_API_Key_missing) @@ ("Structured output validation failed" :> S_validation_failed) @@ ("No providers available" :> S_no_providers) @@ ("Unexpected end of JSON input" :> S_unexpected_end) @@ ("HTTP 401 Unauthorized" :> S_http_401) @@ ("Network error" :> S_network_error) @@ ("OpenAI" :> S_OpenAI) @@ ("Anthropic" :> S_Anthropic)

\* fragments of failure messages, in mixed case; two of them joined may
\* spell a pattern neither contains ("time" and "out ")
MessageFragments == {"Missing ", "Invalid Key ", "UNAUTHORIZED ", "401", "time", "out ", "TIMEOUT ", "429", "Rate ", "NETWORK ", "Fetch ", "Provider ", "boom "}
FragmentSpelling == ("Missing " :> <<"M","i","s","s","i","n","g"," ">>) @@ ("Invalid Key " :> <<"I","n","v","a","l","i","d"," ","K","e","y"," ">>) @@ ("UNAUTHORIZED " :> <<"U","N","A","U","T","H","O","R","I","Z","E","D"," ">>) @@ ("401" :> <<"4","0","1">>) @@ ("time" :> <<"t","i","m","e">>) @@ ("out " :> <<"o","u","t"," ">>) @@ ("TIMEOUT " :> <<"T","I","M","E","O","U","T"," ">>) @@ ("429" :> <<"4","2","9">>) @@ ("Rate " :> <<"R","a","t","e"," ">>) @@ ("NETWORK " :> <<"N","E","T","W","O","R","K"," ">>) @@ ("Fetch " :> <<"F","e","t","c","h"," ">>) @@ ("Provider " :> <<"P","r","o","v","i","d","e","r"," ">>) @@ ("boom " :> <<"b","o","o","m"," ">>)

RECURSIVE TextOf(_)
\* the characters of a message; a piece without a spelling is one character
TextOf(m) == IF m = <<>> THEN <<>> ELSE (IF Head(m) \in DOMAIN Spelling THEN Spelling[Head(m)] ELSE IF Head(m) \in DOMAIN FragmentSpelling THEN FragmentSpelling[Head(m)] ELSE <<Head(m)>>) \o TextOf(Tail(m))

\* messages of the failures the environment (a provider, a callback) raises
M_401 == <<"HTTP 401 Unauthorized">>
M_net == <<"Network error">>

LowerOf == ("A" :> "a") @@ ("B" :> "b") @@ ("C" :> "c") @@ ("D" :> "d") @@ ("E" :> "e") @@ ("F" :> "f") @@ ("G" :> "g") @@ ("H" :> "h") @@ ("I" :> "i") @@ ("J" :> "j") @@ ("K" :> "k") @@ ("L" :> "l") @@ ("M" :> "m") @@ ("N" :> "n") @@ ("O" :> "o") @@ ("P" :> "p") @@ ("Q" :> "q") @@ ("R" :> "r") @@ ("S" :> "s") @@ ("T" :> "t") @@ ("U" :> "u") @@ ("V" :> "v") @@ ("W" :> "w") @@ ("X" :> "x") @@ ("Y" :> "y") @@ ("Z" :> "z")

\* String.prototype.toLowerCase
toLowerCase(s) == [k \in 1..Len(s) |-> IF s[k] \in DOMAIN LowerOf THEN LowerOf[s[k]] ELSE s[k]]

\* String.prototype.includes
includes(s, pat) == \E k \in 0..(Len(s) - Len(pat)) : SubSeq(s, k + 1, k + Len(pat)) = pat

DigitChar == <<"0","1","2","3","4","5","6","7","8","9">>

RECURSIVE NumberToString(_)
\* the decimal text a template literal produces for a non-negative integer
NumberToString(n) == IF n < 10 THEN <<DigitChar[n + 1]>> ELSE NumberToString(n \div 10) \o <<DigitChar[(n % 10) + 1]>>

(***************************************************************************)
(* Providers                                                               *)
(***************************************************************************)
AIProvider == {"gemini", "openai", "anthropic"}

PROVIDER_ORDER == <<"gemini", "openai", "anthropic">>

DEFAULT_TIMEOUT_MS == 20000

ErrorClass == {"timeout", "auth", "rate_limit", "network", "provider", "unknown"}

HealthValues == {"healthy", "degraded", "error", "unconfigured"}

\* the text `${provider}` interpolates
ProviderText(p) == <<p>>

\* a string-valued field that is not there (undefined)
Absent == "<absent>"

\* an optional value: None when it is not given, Some(v) when it is
None == <<>>
Some(v) == <<v>>

\* a ?? b
Coalesce(opt, default) == IF opt = None THEN default ELSE opt[1]

(***************************************************************************)
(* Failure values: what a rejected promise or a throw carries              *)
(***************************************************************************)
\* new Error(message)
NewError(m) == [tag |-> "Error", message |-> m, classification |-> Absent]

\* a thrown null or undefined
Nullish == [tag |-> "nullish", message |-> <<>>, classification |-> Absent]

\* a thrown plain object that carries a classification field
TaggedObject(k) == [tag |-> "object", message |-> <<>>, classification |-> k]

\* the error the deadline timer rejects with
TimeoutError(provider, ms) == [tag |-> "Error", message |-> ProviderText(provider) \o <<" request timed out after ">> \o NumberToString(ms) \o <<"ms">>, classification |-> "timeout"]

\* mutation: the timeout pattern is tried before the auth patterns
ClassOfMessage_timeoutFirst(message) == IF includes(message, S_timeout) THEN "timeout" ELSE IF includes(message, S_missing) \/ includes(message, S_invalid_key) \/ includes(message, S_unauthorized) \/ includes(message, S_401) THEN "auth" ELSE IF includes(message, S_429) \/ includes(message, S_rate) THEN "rate_limit" ELSE IF includes(message, S_network) \/ includes(message, S_fetch) THEN "network" ELSE IF includes(message, S_provider) THEN "provider" ELSE "unknown"

ClassOfMessage(message) == IF includes(message, S_missing) \/ includes(message, S_invalid_key) \/ includes(message, S_unauthorized) \/ includes(message, S_401) THEN "auth" ELSE IF includes(message, S_timeout) THEN "timeout" ELSE IF includes(message, S_429) \/ includes(message, S_rate) THEN "rate_limit" ELSE IF includes(message, S_network) \/ includes(message, S_fetch) THEN "network" ELSE IF includes(message, S_provider) THEN "provider" ELSE "unknown"

\* mutation: an argument that carries a classification is classified anew
classifyError_noPassThrough(provider, error) == LET err == IF error.tag = "Error" THEN error ELSE NewError(ProviderText(provider) \o <<" request failed">>) IN [err EXCEPT !.classification = ClassOfMessage(toLowerCase(TextOf(err.message)))]

\* mutation: the message is matched without lowercasing it
classifyError_caseSensitive(provider, error) == IF error.tag \in {"Error", "object"} /\ error.classification # Absent THEN error ELSE LET err == IF error.tag = "Error" THEN error ELSE NewError(ProviderText(provider) \o <<" request failed">>) IN [err EXCEPT !.classification = ClassOfMessage(TextOf(err.message))]

classifyError(provider, error) == IF error.tag \in {"Error", "object"} /\ error.classification # Absent THEN error ELSE LET err == IF error.tag = "Error" THEN error ELSE NewError(ProviderText(provider) \o <<" request failed">>) IN [err EXCEPT !.classification = ClassOfMessage(toLowerCase(TextOf(err.message)))]

(***************************************************************************)
(* Candidate list                                                          *)
(***************************************************************************)
\* Array.prototype.indexOf, 1-based; 0 when x does not occur
indexOf(arr, x) == IF \E k \in 1..Len(arr) : arr[k] = x THEN CHOOSE k \in 1..Len(arr) : arr[k] = x /\ \A j \in 1..(k - 1) : arr[j] # x ELSE 0

RECURSIVE FilterIdx(_, _, _)
FilterIdx(arr, keep, k) == IF k > Len(arr) THEN <<>> ELSE (IF k \in keep THEN <<arr[k]>> ELSE <<>>) \o FilterIdx(arr, keep, k + 1)

\* mutation: the selected provider is put in front and not removed behind
candidatesOf_keepSelected(selected) == <<selected>> \o PROVIDER_ORDER

\* [selectedProvider, ...PROVIDER_ORDER without it], first occurrences only
candidatesOf(selected) == LET raw == <<selected>> \o SelectSeq(PROVIDER_ORDER, LAMBDA p : p # selected) IN FilterIdx(raw, {k \in 1..Len(raw) : indexOf(raw, raw[k]) = k}, 1)

\* mutation: the environment key does not count
getConfiguredProviders_ignoreEnv(keys, env) == SelectSeq(PROVIDER_ORDER, LAMBDA p : p \in keys)

\* storage.getConfiguredProviders
getConfiguredProviders(keys, env) == SelectSeq(PROVIDER_ORDER, LAMBDA p : (p = "gemini" /\ env) \/ p \in keys)

SeqToSet(s) == {s[k] : k \in 1..Len(s)}

healthyCandidatesOf(candidates, configuredProviders) == SelectSeq(candidates, LAMBDA p : p \in SeqToSet(configuredProviders))

providersToTryOf(selected, keys, env) == LET candidates == candidatesOf(selected) healthyCandidates == healthyCandidatesOf(candidates, getConfiguredProviders(keys, env)) IN IF Len(healthyCandidates) > 0 THEN healthyCandidates ELSE candidates

(***************************************************************************)
(* Values the environment supplies                                         *)
(***************************************************************************)
\* response texts of the gemini model, as the token list text.split(/(\s+)/)
\* yields (the empty response has no token)
T_yes == <<"yes">>
T_no_way == <<"no", " ", "way">>
T_empty == <<>>
GeminiTexts == {T_yes, T_no_way, T_empty}

\* the texts the two canned adapters build (one onToken call each)
T_openai == <<"OpenAI adapter response">>
T_anthropic == <<"Anthropic adapter response">>

\* failures a provider request or a caller's callback may raise
ThrownValues == {NewError(M_401), NewError(M_net), TaggedObject("quota")}

\* no failure (null)
NoFailure == [tag |-> "none", message |-> <<>>, classification |-> Absent]

\* a caller's structured parser: parse throws on the texts in parseThrows,
\* validate returns false on the texts in invalid
StrictParser == [parseThrows |-> {T_empty}, invalid |-> {T_no_way}]
StructuredParsers == {StrictParser}

\* behaviour of the caller's onToken / onToolInvocation inside a canned
\* adapter: both return, or one of them throws
SyncChoices == {[at |-> "none", error |-> NoFailure], [at |-> "onToolInvocation", error |-> NewError(M_net)]} \cup {[at |-> "onToken", error |-> f] : f \in ThrownValues}

SendMessageOptions == [provider : {None} \cup {Some(p) : p \in AIProvider}, enableFallback : {None, Some(TRUE), Some(FALSE)}, timeoutMs : {None, Some(ShortTimeout)}, structured : {None} \cup {Some(sp) : sp \in StructuredParsers}]

CallIds == {1, 2}

(***************************************************************************)
(* State                                                                   *)
(***************************************************************************)
VARIABLES
  providerKeys,      \* storage: providers with a stored API key
  envKey,            \* process.env.GEMINI_API_KEY is set
  prefs,             \* storage.getPreferences(): defaultProvider, providerFallbackEnabled
  providerHealth,    \* storage: last saved health per provider
  pc,                \* per call: "idle", "awaiting", "returned", "rejected"
  options,           \* per call: the options argument
  selectedProvider, fallbackEnabled, timeoutMs, providersToTry, i, lastError,
  ops,               \* per call: the adapter.complete promises, one per attempt
  timers,            \* per call: the deadline timer of each attempt
  elapsed,           \* per call: time since the current attempt's timer was set
  callbacks,         \* per call: invocations of the option callbacks, in order
  emitted,           \* per call: events passed to emitRuntimeEvent, in order
  attempts,          \* per call: finished attempts and how withTimeout settled
  saved,             \* per call: its storage.saveProviderHealth calls, in order
  outcome,           \* per call: the value sendMessage resolved or rejected with
  runtimeListeners,  \* AIService.runtimeListeners: the Set, in insertion order
  received,          \* per listener: the events it was invoked with, in order
  published,         \* the emitRuntimeEvent calls made so far, in order
  classifying,       \* a classifyError call: its argument and what it returned
  validating         \* a validateKey call: its arguments, probes and result

storeVars == <<providerKeys, envKey, prefs>>
localVars == <<options, selectedProvider, fallbackEnabled, timeoutMs, providersToTry>>
callVars == <<providerHealth, pc, localVars, i, lastError, ops, timers, elapsed, callbacks, emitted, attempts, saved, outcome>>
busVars == <<runtimeListeners, received, published>>
vars == <<providerKeys, envKey, prefs, providerHealth, pc, options, selectedProvider, fallbackEnabled, timeoutMs, providersToTry, i, lastError, ops, timers, elapsed, callbacks, emitted, attempts, saved, outcome, runtimeListeners, received, published, classifying, validating>>

NoResult == [text |-> <<>>, provider |-> Absent, fallbackUsed |-> FALSE, structured |-> None]
Pending == [status |-> "pending", result |-> NoResult, error |-> NoFailure]

\* storage DEFAULT_PREFS, the two fields sendMessage reads
DEFAULT_PREFS == [defaultProvider |-> "gemini", providerFallbackEnabled |-> TRUE]

\* the calls explored: the caller leaves provider and fallback to the
\* preferences, whatever they are, or overrides the default preferences
\* with something else
OptionsInScope(opts, p) ==
  \/ opts.provider = None /\ opts.enableFallback = None
  \/ /\ p = DEFAULT_PREFS
     /\ opts.provider # Some(p.defaultProvider)
     /\ opts.enableFallback # Some(p.providerFallbackEnabled)

\* the functions that may be passed to subscribeRuntimeEvents
Listeners == {"L1", "L2"}

\* no sendMessage call is under way
CallsIdle ==
  /\ pc = [c \in CallIds |-> "idle"]
  /\ options = [c \in CallIds |-> [provider |-> None, enableFallback |-> None, timeoutMs |-> None, structured |-> None]]
  /\ selectedProvider = [c \in CallIds |-> Absent]
  /\ fallbackEnabled = [c \in CallIds |-> FALSE]
  /\ timeoutMs = [c \in CallIds |-> 0]
  /\ providersToTry = [c \in CallIds |-> <<>>]
  /\ i = [c \in CallIds |-> 0]
  /\ lastError = [c \in CallIds |-> NoFailure]
  /\ ops = [c \in CallIds |-> <<>>]
  /\ timers = [c \in CallIds |-> <<>>]
  /\ elapsed = [c \in CallIds |-> 0]
  /\ callbacks = [c \in CallIds |-> <<>>]
  /\ emitted = [c \in CallIds |-> <<>>]
  /\ attempts = [c \in CallIds |-> <<>>]
  /\ saved = [c \in CallIds |-> <<>>]
  /\ outcome = [c \in CallIds |-> Pending]

\* no sendMessage call has been made: no health is recorded
CallsInit ==
  /\ providerHealth = [p \in AIProvider |-> Absent]
  /\ CallsIdle

\* private readonly runtimeListeners = new Set<RuntimeListener>()
BusInit ==
  /\ runtimeListeners = <<>>
  /\ received = [l \in Listeners |-> <<>>]
  /\ published = <<>>

\* no classifyError call and no validateKey call is being observed
NotClassifying == [stage |-> "idle", provider |-> Absent, argument |-> NoFailure, held |-> NoFailure, once |-> NoFailure, twice |-> NoFailure]
NotValidating == [stage |-> "idle", provider |-> Absent, keyLength |-> 0, probes |-> 0, probeOk |-> None, result |-> None]

\* with the environment key set, a stored gemini key is never read
Init ==
  /\ providerKeys \in SUBSET AIProvider
  /\ envKey \in BOOLEAN
  /\ envKey => "gemini" \notin providerKeys
  /\ prefs \in [defaultProvider : AIProvider, providerFallbackEnabled : BOOLEAN]
  /\ CallsInit
  /\ BusInit
  /\ classifying = NotClassifying
  /\ validating = NotValidating

(***************************************************************************)
(* Adapters                                                                *)
(***************************************************************************)
\* settled: "pending", or when the promise settled relative to its attempt's
\* deadline: "sync" (before the attempt suspended), "before", "at" or "late"
PendingOp(p) == [provider |-> p, status |-> "pending", text |-> <<>>, error |-> NoFailure, settled |-> "pending"]
FulfilledOp(p, text) == [provider |-> p, status |-> "fulfilled", text |-> text, error |-> NoFailure, settled |-> "sync"]
RejectedOp(p, f) == [provider |-> p, status |-> "rejected", text |-> <<>>, error |-> f, settled |-> "sync"]

\* storage.withProviderApiKey's failure when no key is stored
MissingKeyError(p) == NewError(ProviderText(p) \o <<" API Key missing">>)

OnToken(token) == [cb |-> "onToken", token |-> token]
OnToolInvocation(p, name) == [cb |-> "onToolInvocation", provider |-> p, name |-> name]

\* the name an adapter uses for itself in its own messages
AdapterName(p) == CASE p = "openai" -> "OpenAI" [] p = "anthropic" -> "Anthropic" [] OTHER -> p

\* mutation: fn is invoked whether a key is stored or not
withProviderApiKey_invokeAnyway(p, keys, fn) == LET stored == p \in keys IN fn[stored]

\* storage.withProviderApiKey(provider, fn); fn maps "a key is passed" to
\* what invoking it does (the promise it returns, the callbacks it makes)
withProviderApiKey(p, keys, fn) == IF p \notin keys THEN [op |-> RejectedOp(p, MissingKeyError(p)), cbs |-> <<>>] ELSE fn[TRUE]

\* GeminiAdapter.complete up to its first suspension: invoke starts the
\* request; it runs directly with the environment key, otherwise inside
\* withProviderApiKey
GeminiComplete(keys, env) ==
  LET invoke == [key \in BOOLEAN |-> [op |-> PendingOp("gemini"), cbs |-> <<>>]]
  IN IF env THEN invoke[TRUE] ELSE withProviderApiKey("gemini", keys, invoke)

\* the function OpenAIAdapter / AnthropicAdapter pass to withProviderApiKey:
\* no suspension between its first line and returning the text
CannedInvoke(p, text, tool, sync) ==
  [key \in BOOLEAN |->
    IF ~key
      THEN [op |-> RejectedOp(p, NewError(<<AdapterName(p), " API Key missing">>)), cbs |-> <<>>]
      ELSE IF sync.at = "onToken"
        THEN [op |-> RejectedOp(p, sync.error), cbs |-> <<OnToken(text[1])>>]
        ELSE IF sync.at = "onToolInvocation"
          THEN [op |-> RejectedOp(p, sync.error), cbs |-> <<OnToken(text[1]), OnToolInvocation(p, tool)>>]
          ELSE [op |-> FulfilledOp(p, text), cbs |-> <<OnToken(text[1]), OnToolInvocation(p, tool)>>]]

\* OpenAIAdapter.complete / AnthropicAdapter.complete: the promise is
\* settled at once
CannedComplete(p, text, tool, keys, sync) == withProviderApiKey(p, keys, CannedInvoke(p, text, tool, sync))

\* adapter.complete(mergedMessages, options) of the adapter registered for p
AdapterComplete(p, keys, env, sync) ==
  CASE p = "gemini" -> GeminiComplete(keys, env)
    [] p = "openai" -> CannedComplete("openai", T_openai, "code_search", keys, sync)
    [] p = "anthropic" -> CannedComplete("anthropic", T_anthropic, "reasoning_step", keys, sync)

(***************************************************************************)
(* withTimeout and the structured-output step                              *)
(***************************************************************************)
\* mutation: every failure of the race is reported as the timeout
withTimeoutOutcome_allTimeout(op, timer, provider, ms) ==
  IF timer # "fired" /\ op.status = "fulfilled" THEN [ok |-> TRUE, text |-> op.text, error |-> NoFailure]
  ELSE [ok |-> FALSE, text |-> <<>>, error |-> TimeoutError(provider, ms)]

\* what `await Promise.race([promise, timeoutPromise])` yields: the promise
\* that settled first decides; the timer only fires while the operation is
\* still pending
withTimeoutOutcome(op, timer, provider, ms) ==
  IF timer = "fired" THEN [ok |-> FALSE, text |-> <<>>, error |-> TimeoutError(provider, ms)]
  ELSE IF op.status = "fulfilled" THEN [ok |-> TRUE, text |-> op.text, error |-> NoFailure]
  ELSE [ok |-> FALSE, text |-> <<>>, error |-> op.error]

\* mutation: the finally block does not cancel the timer
clearTimeout_forgotten(handles, k) == handles

\* withTimeout's finally block: clearTimeout(timeoutHandle), on the timer
\* of attempt k
clearTimeout(handles, k) == [handles EXCEPT ![k] = "cleared"]

\* mutation: the result of validate is ignored
StructuredFailure_ignoreValidate(structured, text) ==
  IF structured = None THEN NoFailure
  ELSE IF text \in structured[1].parseThrows THEN NewError(<<"Unexpected end of JSON input">>)
  ELSE NoFailure

\* options.structured.parse / validate on the text; NoFailure when the
\* result stands
StructuredFailure(structured, text) ==
  IF structured = None THEN NoFailure
  ELSE IF text \in structured[1].parseThrows THEN NewError(<<"Unexpected end of JSON input">>)
  ELSE IF text \in structured[1].invalid THEN NewError(<<"Structured output validation failed">>)
  ELSE NoFailure

\* const canFallback = fallbackEnabled && i < providersToTry.length - 1
canFallbackOf(fallback, idx, toTry) == fallback /\ idx < Len(toTry) - 1

\* mutation: fallbackUsed is never set
fallbackUsedOf_never(idx) == FALSE

\* mutation: i >= 0
fallbackUsedOf_nonNegative(idx) == idx >= 0

\* fallbackUsed: i > 0
fallbackUsedOf(idx) == idx > 0

\* mutation: a selected provider whose recorded health is error or
\* unconfigured is replaced by the next provider in the fixed order
selectedProviderOf_avoidUnhealthy(opts, p) == LET sel == Coalesce(opts.provider, p.defaultProvider) IN IF providerHealth[sel] \in {"error", "unconfigured"} THEN PROVIDER_ORDER[(indexOf(PROVIDER_ORDER, sel) % 3) + 1] ELSE sel

\* options.provider ?? prefs.defaultProvider
selectedProviderOf(opts, p) == Coalesce(opts.provider, p.defaultProvider)

\* mutation: the option is ignored
fallbackEnabledOf_prefsOnly(opts, p) == p.providerFallbackEnabled

\* options.enableFallback ?? prefs.providerFallbackEnabled
fallbackEnabledOf(opts, p) == Coalesce(opts.enableFallback, p.providerFallbackEnabled)

\* options.timeoutMs ?? DEFAULT_TIMEOUT_MS
timeoutMsOf(opts) == Coalesce(opts.timeoutMs, DEFAULT_TIMEOUT_MS)

\* mutation: a timeout recorded like a missing credential
HealthOfError_timeoutUnconfigured(err) == IF err.classification \in {"auth", "timeout"} THEN "unconfigured" ELSE "error"

\* mutation: an auth failure recorded like any other failure
HealthOfError_noAuth(err) == "error"

HealthOfError(err) == IF err.classification = "auth" THEN "unconfigured" ELSE "error"

\* mutation: a success is reported as degraded
HealthyEvent_degraded(p) == [type |-> "provider_health", provider |-> p, health |-> "degraded"]

HealthyEvent(p) == [type |-> "provider_health", provider |-> p, health |-> "healthy"]
\* mutation: a failure is reported as a success
FailureEvent_asHealthy(p, health, err) == [type |-> "provider_health", provider |-> p, health |-> "healthy", detail |-> err.message]

FailureEvent(p, health, err) == [type |-> "provider_health", provider |-> p, health |-> health, detail |-> err.message]
\* mutation: from and to change places
SwitchEvent_reversed(previous, p, err) == [type |-> "provider_switch", from |-> p, to |-> previous, reason |-> IF err = NoFailure \/ err.classification = Absent THEN "provider" ELSE err.classification]

SwitchEvent(previous, p, err) == [type |-> "provider_switch", from |-> previous, to |-> p, reason |-> IF err = NoFailure \/ err.classification = Absent THEN "provider" ELSE err.classification]

OnProviderHealth(e) == [cb |-> "onProviderHealth", event |-> e]
OnProviderSwitch(e) == [cb |-> "onProviderSwitch", event |-> e]
OnProviderEvent(e) == [cb |-> "onProviderEvent", text |-> <<"Switched from ", e.from, " to ", e.to, " (", e.reason, ").">>]

\* storage.saveProviderHealth(provider, health)
saveProviderHealth(store, p, health) == [store EXCEPT ![p] = health]

(***************************************************************************)
(* sendMessage                                                             *)
(***************************************************************************)
\* mutation: no adapter is registered for anthropic
adapters_noAnthropic == {"gemini", "openai"}

\* the providers the constructor registers an adapter for (this.adapters)
adapters == {"gemini", "openai", "anthropic"}

\* the entry of a candidate the loop passed over: `if (!adapter) continue`
SkippedOp(p) == [provider |-> p, status |-> "skipped", text |-> <<>>, error |-> NoFailure, settled |-> "pending"]
SkippedOps(toTry, from, to) == [k \in 1..(to - from) |-> SkippedOp(toTry[from + k])]
SkippedTimers(from, to) == [k \in 1..(to - from) |-> "unset"]

\* mutation: the loop passes over a candidate that has an adapter
NextWithAdapter_skipOne(toTry, from) == IF from + 1 < Len(toTry) THEN from + 1 ELSE from

RECURSIVE NextWithAdapter(_, _)
\* the loop index (0-based) of the first candidate at or after `from` that
\* has an adapter; providersToTry.length when the loop runs out
NextWithAdapter(toTry, from) == IF from >= Len(toTry) THEN Len(toTry) ELSE IF toTry[from + 1] \in adapters THEN from ELSE NextWithAdapter(toTry, from + 1)

\* throw lastError ?? new Error('No providers available')
NoProvidersError == NewError(<<"No providers available">>)
FallThroughError(last) == IF last = NoFailure THEN NoProvidersError ELSE last

\* the call, from its first line to the first await of the loop (or to the
\* throw behind the loop when no candidate has an adapter); its options are
\* drawn from optionSet and its callbacks behave as one of syncSet
SendMessageFrom(c, optionSet, syncSet) ==
  /\ pc[c] = "idle"
  /\ \E opts \in optionSet, sync \in syncSet :
       LET sel == selectedProviderOf(opts, prefs)
           toTry == providersToTryOf(sel, providerKeys, envKey)
           first == NextWithAdapter(toTry, 0)
           provider == toTry[first + 1]
           switch == SwitchEvent(toTry[first], provider, NoFailure)
           started == AdapterComplete(provider, providerKeys, envKey, sync)
       IN /\ options' = [options EXCEPT ![c] = opts]
          /\ selectedProvider' = [selectedProvider EXCEPT ![c] = sel]
          /\ fallbackEnabled' = [fallbackEnabled EXCEPT ![c] = fallbackEnabledOf(opts, prefs)]
          /\ timeoutMs' = [timeoutMs EXCEPT ![c] = timeoutMsOf(opts)]
          /\ providersToTry' = [providersToTry EXCEPT ![c] = toTry]
          /\ i' = [i EXCEPT ![c] = first]
          /\ elapsed' = [elapsed EXCEPT ![c] = 0]
          /\ IF first < Len(toTry)
               THEN /\ ops' = [ops EXCEPT ![c] = SkippedOps(toTry, 0, first) \o <<started.op>>]
                    /\ timers' = [timers EXCEPT ![c] = SkippedTimers(0, first) \o <<"armed">>]
                    /\ callbacks' = [callbacks EXCEPT ![c] = (IF first > 0 THEN <<OnProviderSwitch(switch), OnProviderEvent(switch)>> ELSE <<>>) \o started.cbs]
                    /\ emitted' = [emitted EXCEPT ![c] = IF first > 0 THEN <<switch>> ELSE <<>>]
                    /\ pc' = [pc EXCEPT ![c] = "awaiting"]
                    /\ UNCHANGED outcome
               ELSE /\ ops' = [ops EXCEPT ![c] = SkippedOps(toTry, 0, first)]
                    /\ timers' = [timers EXCEPT ![c] = SkippedTimers(0, first)]
                    /\ outcome' = [outcome EXCEPT ![c] = [status |-> "rejected", result |-> NoResult, error |-> FallThroughError(lastError[c])]]
                    /\ pc' = [pc EXCEPT ![c] = "rejected"]
                    /\ UNCHANGED <<callbacks, emitted>>
  /\ UNCHANGED <<busVars, classifying, validating, storeVars, providerHealth, lastError, attempts, saved>>

SendMessage(c) == SendMessageFrom(c, {o \in SendMessageOptions : OptionsInScope(o, prefs)}, SyncChoices)

\* time passes while the current attempt's request is in flight
Tick(c) ==
  /\ pc[c] = "awaiting"
  /\ timers[c][i[c] + 1] = "armed"
  /\ ops[c][i[c] + 1].status = "pending"
  /\ elapsed[c] < timeoutMs[c]
  /\ \E t \in {elapsed[c] + 1, timeoutMs[c] - 1, timeoutMs[c]} :
       /\ t > elapsed[c]
       /\ t <= MaxTick \/ t >= timeoutMs[c] - 1
       /\ elapsed' = [elapsed EXCEPT ![c] = t]
  /\ UNCHANGED <<busVars, classifying, validating, storeVars, providerHealth, pc, localVars, i, lastError, ops, timers, callbacks, emitted, attempts, saved, outcome>>

\* the callback of setTimeout: the deadline passed with the request pending
TimerFires(c) ==
  /\ pc[c] = "awaiting"
  /\ timers[c][i[c] + 1] = "armed"
  /\ ops[c][i[c] + 1].status = "pending"
  /\ elapsed[c] >= timeoutMs[c]
  /\ timers' = [timers EXCEPT ![c][i[c] + 1] = "fired"]
  /\ UNCHANGED <<busVars, classifying, validating, storeVars, providerHealth, pc, localVars, i, lastError, ops, elapsed, callbacks, emitted, attempts, saved, outcome>>

TokenCalls(text) == [k \in 1..Len(text) |-> OnToken(text[k])]

\* the gemini request of attempt k settles: a response (its tokens go to
\* options.onToken) or a failure.  Nothing stops a request whose attempt has
\* already timed out.
OperationSettlesWith(c, k, texts, failures) ==
  /\ k \in 1..Len(ops[c])
  /\ ops[c][k].status = "pending"
  /\ timers[c][k] # "fired" \/ k # i[c] + 1 \/ pc[c] # "awaiting"
  /\ LET at == IF ~(pc[c] = "awaiting" /\ k = i[c] + 1) THEN "late" ELSE IF elapsed[c] < timeoutMs[c] THEN "before" ELSE "at"
     IN \/ \E text \in texts :
             /\ ops' = [ops EXCEPT ![c][k] = [@ EXCEPT !.status = "fulfilled", !.text = text, !.settled = at]]
             /\ callbacks' = [callbacks EXCEPT ![c] = @ \o TokenCalls(text)]
        \/ \E f \in failures :
             /\ ops' = [ops EXCEPT ![c][k] = [@ EXCEPT !.status = "rejected", !.error = f, !.settled = at]]
             /\ UNCHANGED callbacks
  /\ UNCHANGED <<busVars, classifying, validating, storeVars, providerHealth, pc, localVars, i, lastError, timers, elapsed, emitted, attempts, saved, outcome>>

OperationSettles(c, k) == OperationSettlesWith(c, k, GeminiTexts, ThrownValues)

\* what an observer throws when it is told of a healthy provider
ObserverError == NewError(<<"boom ">>)

\* observers of the healthy notification: none of them throws, the
\* options.onProviderHealth callback throws, or a listener subscribed to the
\* runtime events throws (forEach lets the exception through)
QuietObservers == [at |-> "none", error |-> NoFailure]
ObserverBehaviours == {QuietObservers, [at |-> "onProviderHealth", error |-> ObserverError], [at |-> "listener", error |-> ObserverError]}

\* the loop body after `await withTimeout(...)` settles, up to the next
\* await (the next attempt's withTimeout) or the end of the call; the
\* callbacks of a canned adapter started here behave as one of syncSet and
\* the observers of a healthy notification as one of observerSet
ResumeObserved(c, syncSet, observerSet) ==
  /\ pc[c] = "awaiting"
  /\ timers[c][i[c] + 1] = "fired" \/ ops[c][i[c] + 1].status # "pending"
  /\ \E sync \in syncSet, obs \in observerSet :
       LET k == i[c] + 1
           toTry == providersToTry[c]
           provider == toTry[k]
           wt == withTimeoutOutcome(ops[c][k], timers[c][k], provider, timeoutMs[c])
           thrown == IF ~wt.ok THEN wt.error ELSE IF obs.at # "none" THEN obs.error ELSE StructuredFailure(options[c].structured, wt.text)
           okCalls == IF wt.ok THEN <<OnProviderHealth(HealthyEvent(provider))>> ELSE <<>>
           okEvents == IF wt.ok /\ obs.at # "onProviderHealth" THEN <<HealthyEvent(provider)>> ELSE <<>>
           okSaves == IF wt.ok THEN <<[provider |-> provider, health |-> "healthy"]>> ELSE <<>>
           store1 == IF wt.ok THEN saveProviderHealth(providerHealth, provider, "healthy") ELSE providerHealth
           result == [text |-> wt.text, provider |-> provider, fallbackUsed |-> fallbackUsedOf(i[c]), structured |-> IF options[c].structured = None THEN None ELSE Some(wt.text)]
           err == classifyError(provider, thrown)
           health == HealthOfError(err)
           failEvent == FailureEvent(provider, health, err)
           canFallback == canFallbackOf(fallbackEnabled[c], i[c], toTry)
           nxt == NextWithAdapter(toTry, k)
           next == toTry[nxt + 1]
           switch == SwitchEvent(toTry[nxt], next, err)
           started == AdapterComplete(next, providerKeys, envKey, sync)
           record == [provider |-> provider, ok |-> wt.ok, text |-> wt.text, error |-> wt.error, settled |-> ops[c][k].settled, thrown |-> thrown, observer |-> IF wt.ok THEN obs.at ELSE "none"]
           cleared == clearTimeout(timers[c], k)
       IN /\ attempts' = [attempts EXCEPT ![c] = Append(@, record)]
          /\ IF thrown = NoFailure
               THEN /\ providerHealth' = store1
                    /\ saved' = [saved EXCEPT ![c] = @ \o okSaves]
                    /\ callbacks' = [callbacks EXCEPT ![c] = @ \o <<OnProviderHealth(HealthyEvent(provider))>>]
                    /\ emitted' = [emitted EXCEPT ![c] = @ \o okEvents]
                    /\ outcome' = [outcome EXCEPT ![c] = [status |-> "returned", result |-> result, error |-> NoFailure]]
                    /\ pc' = [pc EXCEPT ![c] = "returned"]
                    /\ timers' = [timers EXCEPT ![c] = cleared]
                    /\ UNCHANGED <<i, lastError, ops, elapsed>>
               ELSE /\ lastError' = [lastError EXCEPT ![c] = err]
                    /\ providerHealth' = saveProviderHealth(store1, provider, health)
                    /\ saved' = [saved EXCEPT ![c] = @ \o okSaves \o <<[provider |-> provider, health |-> health]>>]
                    /\ IF ~canFallback
                         THEN /\ callbacks' = [callbacks EXCEPT ![c] = @ \o okCalls \o <<OnProviderHealth(failEvent)>>]
                              /\ emitted' = [emitted EXCEPT ![c] = @ \o okEvents \o <<failEvent>>]
                              /\ outcome' = [outcome EXCEPT ![c] = [status |-> "rejected", result |-> NoResult, error |-> err]]
                              /\ pc' = [pc EXCEPT ![c] = "rejected"]
                              /\ timers' = [timers EXCEPT ![c] = cleared]
                              /\ UNCHANGED <<i, ops, elapsed>>
                         ELSE IF nxt < Len(toTry)
                           THEN /\ i' = [i EXCEPT ![c] = nxt]
                                /\ callbacks' = [callbacks EXCEPT ![c] = @ \o okCalls \o <<OnProviderHealth(failEvent), OnProviderSwitch(switch), OnProviderEvent(switch)>> \o started.cbs]
                                /\ emitted' = [emitted EXCEPT ![c] = @ \o okEvents \o <<failEvent, switch>>]
                                /\ ops' = [ops EXCEPT ![c] = @ \o SkippedOps(toTry, k, nxt) \o <<started.op>>]
                                /\ timers' = [timers EXCEPT ![c] = cleared \o SkippedTimers(k, nxt) \o <<"armed">>]
                                /\ elapsed' = [elapsed EXCEPT ![c] = 0]
                                /\ UNCHANGED <<pc, outcome>>
                           ELSE /\ i' = [i EXCEPT ![c] = nxt]
                                /\ callbacks' = [callbacks EXCEPT ![c] = @ \o okCalls \o <<OnProviderHealth(failEvent)>>]
                                /\ emitted' = [emitted EXCEPT ![c] = @ \o okEvents \o <<failEvent>>]
                                /\ ops' = [ops EXCEPT ![c] = @ \o SkippedOps(toTry, k, nxt)]
                                /\ timers' = [timers EXCEPT ![c] = cleared \o SkippedTimers(k, nxt)]
                                /\ outcome' = [outcome EXCEPT ![c] = [status |-> "rejected", result |-> NoResult, error |-> FallThroughError(err)]]
                                /\ pc' = [pc EXCEPT ![c] = "rejected"]
                                /\ UNCHANGED elapsed
  /\ UNCHANGED <<busVars, classifying, validating, storeVars, localVars>>

ResumeWith(c, syncSet) == ResumeObserved(c, syncSet, {QuietObservers})

Resume(c) == ResumeWith(c, SyncChoices)

Finished(c) == pc[c] \in {"returned", "rejected"}

Next ==
  \/ SendMessage(1)
  \/ \E c \in CallIds : Tick(c)
  \/ \E c \in CallIds : TimerFires(c)
  \/ \E c \in CallIds : \E k \in 1..3 : OperationSettles(c, k)
  \/ \E c \in CallIds : Resume(c)

Spec == Init /\ [][Next]_vars

\* the continuation of `await withTimeout(...)` is ready to run
ResumeReady(c) == pc[c] = "awaiting" /\ (timers[c][i[c] + 1] = "fired" \/ ops[c][i[c] + 1].status # "pending")

\* the event loop runs what is ready: time passes while a request is in
\* flight, a timer whose deadline has passed fires, and the continuation of
\* a settled await runs (weak fairness of Resume, with its enabling
\* condition written out).  Nothing obliges a provider to answer.
Fairness == WF_vars(Tick(1)) /\ WF_vars(TimerFires(1)) /\ ([]<>(~ResumeReady(1)) \/ []<><<Resume(1)>>_vars)

SpecFair == Spec /\ Fairness

(***************************************************************************)
(* Two sendMessage calls in flight at once.  A call runs from one await to *)
(* the next without interruption; the steps of the two calls interleave    *)
(* at the awaits.                                                          *)
(***************************************************************************)
ConcurrentOptions == {[provider |-> pr, enableFallback |-> None, timeoutMs |-> Some(ShortTimeout), structured |-> None] : pr \in {None, Some("openai")}}
ConcurrentSync == {[at |-> "none", error |-> NoFailure], [at |-> "onToken", error |-> NewError(M_401)]}
ConcurrentTexts == {T_yes}
ConcurrentFailures == {NewError(M_401), NewError(M_net)}

InitConcurrent ==
  /\ providerKeys = AIProvider
  /\ envKey = FALSE
  /\ prefs = DEFAULT_PREFS
  /\ CallsInit
  /\ BusInit
  /\ classifying = NotClassifying
  /\ validating = NotValidating

NextConcurrent ==
  \/ \E c \in CallIds : SendMessageFrom(c, ConcurrentOptions, ConcurrentSync)
  \/ \E c \in CallIds : Tick(c)
  \/ \E c \in CallIds : TimerFires(c)
  \/ \E c \in CallIds : \E k \in 1..3 : OperationSettlesWith(c, k, ConcurrentTexts, ConcurrentFailures)
  \/ \E c \in CallIds : ResumeWith(c, ConcurrentSync)

SpecConcurrent == InitConcurrent /\ [][NextConcurrent]_vars

(***************************************************************************)
(* A call whose observers may throw when they are told that a provider is  *)
(* healthy                                                                 *)
(***************************************************************************)
ObservedOptions == {[provider |-> None, enableFallback |-> fb, timeoutMs |-> Some(ShortTimeout), structured |-> None] : fb \in {None, Some(FALSE)}}

InitObserved ==
  /\ providerKeys \in {AIProvider, {"gemini"}}
  /\ envKey = FALSE
  /\ prefs = DEFAULT_PREFS
  /\ CallsInit
  /\ BusInit
  /\ classifying = NotClassifying
  /\ validating = NotValidating

NextObserved ==
  \/ SendMessageFrom(1, ObservedOptions, SyncChoices)
  \/ Tick(1)
  \/ TimerFires(1)
  \/ \E k \in 1..3 : OperationSettlesWith(1, k, GeminiTexts, ThrownValues)
  \/ ResumeObserved(1, SyncChoices, ObserverBehaviours)

SpecObserved == InitObserved /\ [][NextObserved]_vars

(***************************************************************************)
(* One call after another on the same service: the second call starts     *)
(* when the first has ended, and finds the health the first one recorded   *)
(* on top of the health recorded before                                    *)
(***************************************************************************)
RecordedBefore == {[p \in AIProvider |-> h] : h \in {Absent, "error", "unconfigured"}}

InitRerun ==
  /\ providerKeys = AIProvider
  /\ envKey = FALSE
  /\ prefs = DEFAULT_PREFS
  /\ providerHealth \in RecordedBefore
  /\ CallsIdle
  /\ BusInit
  /\ classifying = NotClassifying
  /\ validating = NotValidating

NextRerun ==
  \/ SendMessageFrom(1, ConcurrentOptions, ConcurrentSync)
  \/ Finished(1) /\ SendMessageFrom(2, ConcurrentOptions, ConcurrentSync)
  \/ \E c \in CallIds : Tick(c)
  \/ \E c \in CallIds : TimerFires(c)
  \/ \E c \in CallIds : \E k \in 1..3 : OperationSettlesWith(c, k, ConcurrentTexts, ConcurrentFailures)
  \/ \E c \in CallIds : ResumeWith(c, ConcurrentSync)

SpecRerun == InitRerun /\ [][NextRerun]_vars

(***************************************************************************)
(* classifyError on its own: the argument is drawn from the failure values *)
(* a catch block can receive, the function is applied, and its result is   *)
(* classified once more                                                    *)
(***************************************************************************)
\* the store of a service on which no sendMessage call is made
QuietStore ==
  /\ providerKeys = {}
  /\ envKey = FALSE
  /\ prefs = DEFAULT_PREFS

FailureMessages == UNION {[1..n -> MessageFragments] : n \in 0..MaxFragments}

\* a thrown string
ThrownString == [tag |-> "primitive", message |-> M_net, classification |-> Absent]

\* the value of a classification field that is there and holds undefined
Undefined == "<undefined>"

\* an Error that was classified before
ClassifiedBefore == [NewError(M_net) EXCEPT !.classification = "auth"]

FailureValues == {NewError(m) : m \in FailureMessages} \cup {Nullish, ThrownString, ClassifiedBefore} \cup {TaggedObject(k) : k \in ErrorClass \cup {Absent, Undefined, "quota"}} \cup {TimeoutError(p, ms) : p \in AIProvider, ms \in {ShortTimeout, DEFAULT_TIMEOUT_MS}}

\* the argument as its holder sees it after the call: `classified` is the
\* Error that was passed in, so the assignment to classified.classification
\* changes that object; any other argument is left alone
ArgumentAfterClassify(provider, error) == IF error.tag = "Error" THEN classifyError(provider, error) ELSE error

InitClassify ==
  /\ QuietStore
  /\ CallsInit
  /\ BusInit
  /\ validating = NotValidating
  /\ classifying \in {[stage |-> "input", provider |-> p, argument |-> e, held |-> e, once |-> NoFailure, twice |-> NoFailure] : p \in AIProvider, e \in FailureValues}

\* classifyError(provider, argument)
Classify ==
  /\ classifying.stage = "input"
  /\ classifying' = [classifying EXCEPT !.stage = "once", !.once = classifyError(classifying.provider, classifying.argument), !.held = ArgumentAfterClassify(classifying.provider, classifying.argument)]
  /\ UNCHANGED <<storeVars, callVars, busVars, validating>>

\* classifyError(q, <the result of the first call>)
Reclassify ==
  /\ classifying.stage = "once"
  /\ \E q \in AIProvider : classifying' = [classifying EXCEPT !.stage = "twice", !.provider = q, !.twice = classifyError(q, classifying.once)]
  /\ UNCHANGED <<storeVars, callVars, busVars, validating>>

NextClassify == Classify \/ Reclassify

SpecClassify == InitClassify /\ [][NextClassify]_vars

(***************************************************************************)
(* The runtime event bus on its own: listeners come and go, events are     *)
(* published, and a listener may throw when it is invoked                  *)
(***************************************************************************)
\* Set.prototype.add: a value already in the Set keeps its place
SetAdd(set, l) == IF l \in SeqToSet(set) THEN set ELSE Append(set, l)

\* Set.prototype.delete
SetDelete(set, l) == SelectSeq(set, LAMBDA x : x # l)

RECURSIVE forEachInvoked(_, _)
\* the listeners `this.runtimeListeners.forEach((listener) => listener(event))`
\* invokes, in order: the exception of a listener that throws ends the loop
forEachInvoked(set, throwing) == IF set = <<>> THEN <<>> ELSE <<Head(set)>> \o (IF Head(set) \in throwing THEN <<>> ELSE forEachInvoked(Tail(set), throwing))

\* the events published here
BusEvents == {HealthyEvent("gemini"), SwitchEvent("gemini", "openai", NoFailure)}

InitBus ==
  /\ QuietStore
  /\ CallsInit
  /\ BusInit
  /\ classifying = NotClassifying
  /\ validating = NotValidating

\* subscribeRuntimeEvents(listener)
Subscribe(l) ==
  /\ runtimeListeners' = SetAdd(runtimeListeners, l)
  /\ UNCHANGED <<storeVars, callVars, received, published, classifying, validating>>

\* the function subscribeRuntimeEvents returned for l is called
Unsubscribe(l) ==
  /\ l \in SeqToSet(runtimeListeners)
  /\ runtimeListeners' = SetDelete(runtimeListeners, l)
  /\ UNCHANGED <<storeVars, callVars, received, published, classifying, validating>>

\* emitRuntimeEvent(event); the subscribed listeners in `throwing` throw
\* when they are invoked
EmitRuntimeEvent(event, throwing) ==
  /\ Len(published) < MaxPublished
  /\ throwing \subseteq SeqToSet(runtimeListeners)
  /\ LET invoked == forEachInvoked(runtimeListeners, throwing)
         n == Len(published) + 1
     IN /\ received' = [l \in Listeners |-> IF l \in SeqToSet(invoked) THEN Append(received[l], n) ELSE received[l]]
        /\ published' = Append(published, [event |-> event, subscribed |-> runtimeListeners, throwing |-> throwing, invoked |-> invoked])
  /\ UNCHANGED <<storeVars, callVars, runtimeListeners, classifying, validating>>

NextBus ==
  \/ \E l \in Listeners : Subscribe(l)
  \/ \E l \in Listeners : Unsubscribe(l)
  \/ \E event \in BusEvents, throwing \in SUBSET Listeners : EmitRuntimeEvent(event, throwing)

SpecBus == InitBus /\ [][NextBus]_vars

(***************************************************************************)
(* validateKey on its own.  Of the key only its length is kept: it is all  *)
(* the function reads, apart from handing the key to the gemini client     *)
(***************************************************************************)
\* return key.length > 20
KEY_LENGTH_FLOOR == 20

InitValidate ==
  /\ QuietStore
  /\ CallsInit
  /\ BusInit
  /\ classifying = NotClassifying
  /\ validating = NotValidating

\* validateKey(provider, key) up to its first await or its return: an
\* empty key is refused at once, a gemini key is tried with one
\* generateContent request, any other key is judged by its length
ValidateKey(provider, keyLength) ==
  /\ validating.stage = "idle"
  /\ validating' = IF keyLength = 0
                     THEN [stage |-> "done", provider |-> provider, keyLength |-> keyLength, probes |-> 0, probeOk |-> None, result |-> Some(FALSE)]
                   ELSE IF provider = "gemini"
                     THEN [stage |-> "probing", provider |-> provider, keyLength |-> keyLength, probes |-> 1, probeOk |-> None, result |-> None]
                   ELSE [stage |-> "done", provider |-> provider, keyLength |-> keyLength, probes |-> 0, probeOk |-> None, result |-> Some(keyLength > KEY_LENGTH_FLOOR)]
  /\ UNCHANGED <<storeVars, callVars, busVars, classifying>>

\* the generateContent request settles: `return true`, or the catch block's
\* `return false`
ProbeSettles(ok) ==
  /\ validating.stage = "probing"
  /\ validating' = [validating EXCEPT !.stage = "done", !.probeOk = Some(ok), !.result = Some(ok)]
  /\ UNCHANGED <<storeVars, callVars, busVars, classifying>>

NextValidate ==
  \/ \E provider \in AIProvider, keyLength \in 0..MaxKeyLength : ValidateKey(provider, keyLength)
  \/ \E ok \in BOOLEAN : ProbeSettles(ok)

SpecValidate == InitValidate /\ [][NextValidate]_vars

(***************************************************************************)
(* Helpers of the properties                                               *)
(***************************************************************************)
SwitchEvents(c) == {k \in 1..Len(emitted[c]) : emitted[c][k].type = "provider_switch"}

HealthEvents(c, p, h) == {k \in 1..Len(emitted[c]) : emitted[c][k].type = "provider_health" /\ emitted[c][k].provider = p /\ emitted[c][k].health = h}

AttemptsOn(c, p) == {k \in 1..Len(attempts[c]) : attempts[c][k].provider = p}

S_401_unauthorized == <<"4","0","1"," ","u","n","a","u","t","h","o","r","i","z","e","d">>

\* attempt record r failed with an unclassified Error whose message
\* contains "401 unauthorized"
Fails401(r) == r.thrown.tag = "Error" /\ r.error = r.thrown /\ r.error.classification = Absent /\ includes(toLowerCase(TextOf(r.error.message)), S_401_unauthorized)

\* the premise of scenario A for a finished call
ScenarioA(c) ==
  /\ Finished(c)
  /\ selectedProvider[c] = "openai"
  /\ fallbackEnabled[c]
  /\ \E k \in AttemptsOn(c, "openai") : Fails401(attempts[c][k])
  /\ \E k \in AttemptsOn(c, "anthropic") : attempts[c][k].thrown = NoFailure

ScenarioAExpected(c) ==
  /\ outcome[c].status = "returned"
  /\ outcome[c].result.provider = "anthropic"
  /\ outcome[c].result.fallbackUsed
  /\ Cardinality(HealthEvents(c, "openai", "unconfigured")) = 1
  /\ Cardinality(HealthEvents(c, "anthropic", "healthy")) = 1
  /\ Cardinality(SwitchEvents(c)) = 1
  /\ \A k \in SwitchEvents(c) : emitted[c][k] = [type |-> "provider_switch", from |-> "openai", to |-> "anthropic", reason |-> "auth"]

(***************************************************************************)
(* C1 - scenario A                                                         *)
(***************************************************************************)
\* C1 as stated: selected openai fails with "401 unauthorized", anthropic
\* succeeds, fallback on; then the call returns anthropic's result with
\* fallbackUsed, and emits exactly one health{openai, unconfigured}, one
\* health{anthropic, healthy} and one switch, {openai -> anthropic, "auth"}.
C1_AsStated == \A c \in CallIds : ScenarioA(c) => ScenarioAExpected(c)

\* C1 amended: the same, for the calls in which gemini is not attempted
\* between the two (the providers tried are openai, then anthropic).
C1_ScenarioA == \A c \in CallIds : (ScenarioA(c) /\ AttemptsOn(c, "gemini") = {}) => ScenarioAExpected(c)

C1_Witness == \E c \in CallIds : ScenarioA(c) /\ AttemptsOn(c, "gemini") = {} /\ outcome[c].status = "returned"

(***************************************************************************)
(* C2 - scenario B                                                         *)
(***************************************************************************)
\* a message that mentions the network and matches none of the patterns
\* classifyError tries before the network ones
NetworkFlavoured(m) ==
  /\ includes(toLowerCase(TextOf(m)), S_network) \/ includes(toLowerCase(TextOf(m)), S_fetch)
  /\ \A pat \in {S_missing, S_invalid_key, S_unauthorized, S_401, S_timeout, S_429, S_rate} : ~includes(toLowerCase(TextOf(m)), pat)

\* attempt record r failed with an unclassified Error of such a message
FailsNetwork(r) == r.thrown # NoFailure /\ r.error = r.thrown /\ r.error.tag = "Error" /\ r.error.classification = Absent /\ NetworkFlavoured(r.error.message)

ScenarioB(c) ==
  /\ Finished(c)
  /\ fallbackEnabled[c]
  /\ \A p \in AIProvider : \E k \in AttemptsOn(c, p) : FailsNetwork(attempts[c][k])

\* C2: fallback on and the attempts on all three providers fail with
\* network-flavoured messages; then the call rejects with kind network,
\* exactly three health events with health error were emitted, one per
\* provider, and exactly two switch events.
C2_ScenarioB ==
  \A c \in CallIds : ScenarioB(c) =>
    /\ outcome[c].status = "rejected"
    /\ outcome[c].error.classification = "network"
    /\ Cardinality({k \in 1..Len(emitted[c]) : emitted[c][k].type = "provider_health" /\ emitted[c][k].health = "error"}) = 3
    /\ \A p \in AIProvider : Cardinality(HealthEvents(c, p, "error")) = 1
    /\ Cardinality(SwitchEvents(c)) = 2

C2_Witness == \E c \in CallIds : ScenarioB(c) /\ outcome[c].status = "rejected"

(***************************************************************************)
(* C3 - scenario C                                                         *)
(***************************************************************************)
\* validate returned false on the text of attempt record r
ValidateRejects(c, r) == r.ok /\ options[c].structured # None /\ r.text \in options[c].structured[1].invalid

\* the text of attempt record r passed parse and validate
ValidatePasses(c, r) == r.ok /\ options[c].structured # None /\ r.thrown = NoFailure

ScenarioC(c) ==
  /\ Finished(c)
  /\ fallbackEnabled[c]
  /\ options[c].structured # None
  /\ \E k \in AttemptsOn(c, "gemini") : ValidateRejects(c, attempts[c][k])
  /\ \E k \in AttemptsOn(c, "openai") : ValidatePasses(c, attempts[c][k])

\* C3: structured set, fallback on, gemini's text fails validate, openai's
\* text passes; then the call returns openai's result with fallbackUsed.
\* And no call ever returns a text that its validator rejects.
C3_ScenarioC ==
  \A c \in CallIds :
    /\ ScenarioC(c) => outcome[c].status = "returned" /\ outcome[c].result.provider = "openai" /\ outcome[c].result.fallbackUsed
    /\ (outcome[c].status = "returned" /\ options[c].structured # None) => outcome[c].result.text \notin options[c].structured[1].invalid

C3_Witness == \E c \in CallIds : ScenarioC(c) /\ outcome[c].result.provider = "openai"

(***************************************************************************)
(* C4 - no fallback                                                        *)
(***************************************************************************)
\* the resolved flag, read off the call's arguments and the preferences
FallbackOff(c) == options[c].enableFallback = Some(FALSE) \/ (options[c].enableFallback = None /\ ~prefs.providerFallbackEnabled)

\* C4: a call whose resolved fallbackEnabled is false makes exactly one
\* provider attempt; if that attempt fails the call rejects with the
\* attempt's classified error; the call emits no switch event.
C4_NoFallback ==
  \A c \in CallIds : (pc[c] # "idle" /\ FallbackOff(c)) =>
    /\ Len(ops[c]) = 1
    /\ SwitchEvents(c) = {}
    /\ Len(attempts[c]) <= 1
    /\ Finished(c) => Len(attempts[c]) = 1
    /\ (Len(attempts[c]) = 1 /\ attempts[c][1].thrown # NoFailure) =>
         /\ outcome[c].status = "rejected"
         /\ outcome[c].error = classifyError(attempts[c][1].provider, attempts[c][1].thrown)

C4_Witness == \E c \in CallIds : FallbackOff(c) /\ pc[c] = "rejected" /\ Len(providersToTry[c]) = 3

(***************************************************************************)
(* C5 - candidate ordering                                                 *)
(***************************************************************************)
NoDuplicates(seq) == \A j, k \in 1..Len(seq) : seq[j] = seq[k] => j = k

\* the selected provider, read off the call's arguments and the preferences
Selected(c) == IF options[c].provider # None THEN options[c].provider[1] ELSE prefs.defaultProvider

Configured == {p \in AIProvider : p \in providerKeys \/ (p = "gemini" /\ envKey)}

\* C5 as stated: providersToTry starts with the selected provider and holds
\* no provider twice.
C5_AsStated == \A c \in CallIds : pc[c] # "idle" => providersToTry[c][1] = Selected(c) /\ NoDuplicates(providersToTry[c])

\* C5 amended: providersToTry holds no provider twice and holds configured
\* providers only unless none is configured; it starts with the selected
\* provider when that provider is configured or no provider is; the
\* providers attempted so far are its first elements, in order.
C5_CandidateOrdering ==
  \A c \in CallIds : pc[c] # "idle" =>
    /\ NoDuplicates(providersToTry[c])
    /\ Len(providersToTry[c]) >= 1
    /\ (Selected(c) \in Configured \/ Configured = {}) => providersToTry[c][1] = Selected(c)
    /\ Configured # {} => SeqToSet(providersToTry[c]) \subseteq Configured
    /\ Len(ops[c]) <= Len(providersToTry[c])
    /\ \A k \in 1..Len(ops[c]) : ops[c][k].provider = providersToTry[c][k]

C5_Witness == \E c \in CallIds : Len(ops[c]) = 3 /\ providersToTry[c][1] = Selected(c) /\ Selected(c) = "anthropic"

(***************************************************************************)
(* C6 - the rejection value                                                *)
(***************************************************************************)
\* C6: a rejected call rejects with the classified error of its last
\* attempt, and the kind of that error is one of the six error classes.
C6_AsStated ==
  \A c \in CallIds : pc[c] = "rejected" =>
    /\ outcome[c].error = classifyError(attempts[c][Len(attempts[c])].provider, attempts[c][Len(attempts[c])].thrown)
    /\ outcome[c].error.classification \in ErrorClass

(***************************************************************************)
(* C7 - fallbackUsed                                                       *)
(***************************************************************************)
\* C7: a returned result has fallbackUsed exactly when an attempt of the
\* call failed before the one that produced it, which is exactly when its
\* provider is not the first provider attempted.
C7_FallbackUsed ==
  \A c \in CallIds : pc[c] = "returned" =>
    /\ outcome[c].result.fallbackUsed <=> \E k \in 1..(Len(attempts[c]) - 1) : attempts[c][k].thrown # NoFailure
    /\ outcome[c].result.fallbackUsed <=> outcome[c].result.provider # ops[c][1].provider
    /\ outcome[c].result.provider = attempts[c][Len(attempts[c])].provider

C7_Witness == \E c \in CallIds : pc[c] = "returned" /\ outcome[c].result.fallbackUsed /\ Len(attempts[c]) = 3

(***************************************************************************)
(* C8 - one request in flight                                              *)
(***************************************************************************)
\* C8: an attempt is started only when the request of the attempt before
\* it is no longer running (also when that attempt ended by timeout): every
\* request but the newest of a call settled before its successor started.
C8_AsStated == \A c \in CallIds : \A k \in 1..(Len(ops[c]) - 1) : ops[c][k].settled \notin {"pending", "late"}

(***************************************************************************)
(* C9 - timeout exactness                                                  *)
(***************************************************************************)
\* C9: withTimeout yields the operation's own result or failure, never the
\* timeout error, when the operation settled before timeoutMs; it fails
\* with an error of kind timeout whose message names the provider and the
\* duration when the operation had not settled by timeoutMs, and the wait
\* never outlasts timeoutMs.
C9_TimeoutExactness ==
  \A c \in CallIds :
    /\ pc[c] = "awaiting" => elapsed[c] <= timeoutMs[c]
    /\ \A k \in 1..Len(attempts[c]) :
         LET r == attempts[c][k]
             op == ops[c][k]
         IN /\ r.settled \in {"sync", "before"} =>
                 /\ r.ok <=> op.status = "fulfilled"
                 /\ r.text = op.text
                 /\ r.error = op.error
                 /\ r.error.classification # "timeout"
            /\ r.settled = "pending" =>
                 /\ ~r.ok
                 /\ r.error.classification = "timeout"
                 /\ includes(TextOf(r.error.message), TextOf(<<r.provider>>))
                 /\ includes(TextOf(r.error.message), NumberToString(timeoutMs[c]) \o S_ms)

C9_Witness == \E c \in CallIds : \E k \in 1..Len(attempts[c]) : attempts[c][k].settled = "pending" /\ timeoutMs[c] = DEFAULT_TIMEOUT_MS

(***************************************************************************)
(* C10 - nothing happens after a timeout                                   *)
(***************************************************************************)
\* C10: when the request of an attempt that failed with kind timeout
\* settles later, no callback of the call is invoked and neither the call's
\* result, the saved health nor the emitted events change.
C10_AsStated ==
  [][\A c \in CallIds : \A k \in 1..Len(attempts[c]) :
       (attempts[c][k].error.classification = "timeout" /\ ops[c][k].status = "pending" /\ ops'[c][k].status # "pending")
         => (callbacks'[c] = callbacks[c] /\ outcome'[c] = outcome[c] /\ providerHealth' = providerHealth /\ emitted'[c] = emitted[c])]_vars

\* C11 (as stated): whatever failure value classifyError is given, the
\* error it returns has a kind, and the kind is one of the six values
C11_AsStated == classifying.stage \in {"once", "twice"} => classifying.once.classification \in ErrorClass

\* C12: classifying the result of classifyError again, for any provider,
\* returns the same kind and the same message text; and the error that
\* withTimeout's timer rejects with keeps the kind timeout
C12_Idempotence ==
  /\ classifying.stage = "twice" => /\ classifying.twice.classification = classifying.once.classification
                                    /\ TextOf(classifying.twice.message) = TextOf(classifying.once.message)
  /\ \A p \in AIProvider, ms \in {ShortTimeout, DEFAULT_TIMEOUT_MS} :
       classifying.stage \in {"once", "twice"} /\ classifying.argument = TimeoutError(p, ms) => classifying.once.classification = "timeout"

\* a timeout error of gemini was classified for gemini and then for openai
C12_Witness ==
  /\ classifying.stage = "twice"
  /\ classifying.argument = TimeoutError("gemini", ShortTimeout)
  /\ classifying.provider = "openai"
  /\ classifying.twice.classification = "timeout"

\* the kinds in the order the claim gives, each with its patterns
KindPriority == <<[kind |-> "auth", patterns |-> {S_missing, S_invalid_key, S_unauthorized, S_401}], [kind |-> "timeout", patterns |-> {S_timeout}], [kind |-> "rate_limit", patterns |-> {S_429, S_rate}], [kind |-> "network", patterns |-> {S_network, S_fetch}], [kind |-> "provider", patterns |-> {S_provider}]>>

\* the kinds one of whose patterns occurs in the text, letter case aside
MatchingKinds(text) == {n \in 1..Len(KindPriority) : \E pat \in KindPriority[n].patterns : \E k \in 1..Len(text) : k + Len(pat) - 1 <= Len(text) /\ \A j \in 1..Len(pat) : toLowerCase(<<text[k + j - 1]>>) = <<pat[j]>>}

Unclassified(e) == e.tag = "Error" /\ e.classification = Absent

\* C19: an unclassified Error gets the first kind, in the order auth,
\* timeout, rate_limit, network, provider, that has a pattern occurring in
\* its message whatever the letter case, and unknown exactly when no
\* pattern occurs
C19_Priority ==
  classifying.stage \in {"once", "twice"} /\ Unclassified(classifying.argument) =>
    LET matching == MatchingKinds(TextOf(classifying.argument.message))
        kind == classifying.once.classification
    IN /\ matching # {} => /\ kind = KindPriority[CHOOSE n \in matching : \A o \in matching : n <= o].kind
       /\ kind = "unknown" <=> matching = {}

\* "Missing TIMEOUT " matches an auth and the timeout pattern, in upper
\* case, and was classified auth
C19_Witness ==
  /\ classifying.stage = "once"
  /\ classifying.argument = NewError(<<"Missing ", "TIMEOUT ">>)
  /\ classifying.once.classification = "auth"

\* position of listener l among the subscribed listeners (0: not there)
PlaceOf(subscribed, l) == indexOf(subscribed, l)

\* C13 (as stated): when an event is published and a subscribed listener
\* throws, every listener subscribed after it is still invoked with the
\* event
C13_AsStated ==
  \A n \in 1..Len(published) : \A l \in SeqToSet(published[n].subscribed), later \in SeqToSet(published[n].subscribed) :
    l \in published[n].throwing /\ PlaceOf(published[n].subscribed, l) < PlaceOf(published[n].subscribed, later) => n \in SeqToSet(received[later])

\* C14 (as stated): every published event went, once and in subscription
\* order, to exactly the listeners subscribed when it was published, so a
\* listener has received an event if and only if it was subscribed then
C14_AsStated ==
  /\ \A n \in 1..Len(published) : published[n].invoked = published[n].subscribed
  /\ \A l \in Listeners : received[l] = SelectSeq([n \in 1..Len(published) |-> n], LAMBDA n : l \in SeqToSet(published[n].subscribed))

\* the providers a call has started a request on, in order
Attempted(c) == SelectSeq([k \in 1..Len(ops[c]) |-> ops[c][k]], LAMBDA op : op.status # "skipped")

\* a rejected call rejects with the error of its last attempt, not with
\* the error of the line behind the loop
RejectsWithLastError(c) ==
  /\ Len(attempts[c]) > 0
  /\ outcome[c].error = lastError[c]
  /\ TextOf(outcome[c].error.message) # TextOf(NoProvidersError.message)

AttemptsBounded(c) ==
  /\ Len(Attempted(c)) <= 3
  /\ \A j, k \in 1..Len(Attempted(c)) : (Attempted(c)[j].provider = Attempted(c)[k].provider) => (j = k)
  /\ Len(attempts[c]) <= Len(Attempted(c))
  /\ (pc[c] = "rejected" /\ selectedProvider[c] \in AIProvider) => RejectsWithLastError(c)

\* C15: a call makes at most three attempts, never two on one provider; it
\* does not end with the no-providers-available error of the line behind
\* the loop when the selected provider is one of the three kinds; and a
\* call that has started ends, by returning or rejecting
C15_Termination ==
  /\ [](\A c \in CallIds : AttemptsBounded(c))
  /\ (pc[1] = "awaiting") ~> Finished(1)

\* a call rejected after attempts on all three providers, the first of
\* which ran into its timeout
C15_Witness ==
  /\ pc[1] = "rejected"
  /\ Len(attempts[1]) = 3
  /\ attempts[1][1].error = TimeoutError(attempts[1][1].provider, timeoutMs[1])

\* the call that finishes an attempt in this step, if any
FinishesAttempt(c) == Len(attempts'[c]) > Len(attempts[c])

\* the candidates a call has gone through are the first ones of its list,
\* in order, each once
InCandidateOrder(c) == /\ Len(Attempted(c)) = Len(ops[c])
                       /\ Len(ops[c]) <= Len(providersToTry[c])
                       /\ \A k \in 1..Len(ops[c]) : ops[c][k].provider = providersToTry[c][k]

\* the result names the provider whose request produced its text
ResultFromItsProvider(c) ==
  pc[c] = "returned" =>
    LET k == Len(attempts[c])
    IN /\ ops[c][k].status = "fulfilled"
       /\ ops[c][k].provider = outcome[c].result.provider
       /\ ops[c][k].text = outcome[c].result.text
       /\ attempts[c][k].provider = outcome[c].result.provider

\* C16: with two calls interleaved, a step in which a call finishes an
\* attempt on p leaves in the health store of p the health that attempt
\* wrote last, every other step and every other provider's entry is left
\* alone; and each call goes through its own candidates in order, once
\* each, and returns the text under the name of the provider it came from
C16_Interleaving ==
  /\ [](\A c \in CallIds : InCandidateOrder(c) /\ NoDuplicates(providersToTry[c]) /\ ResultFromItsProvider(c))
  /\ [][\A p \in AIProvider :
          IF \E c \in CallIds : FinishesAttempt(c) /\ attempts'[c][Len(attempts'[c])].provider = p
            THEN \E c \in CallIds : /\ FinishesAttempt(c)
                                    /\ saved'[c][Len(saved'[c])].provider = p
                                    /\ providerHealth'[p] = saved'[c][Len(saved'[c])].health
            ELSE providerHealth'[p] = providerHealth[p]]_vars

\* gemini's entry is the one call 2 wrote after call 1 and openai's entry
\* is the one call 1 wrote after call 2: the calls were interleaved
C16_Witness ==
  /\ pc[1] = "returned" /\ Len(attempts[1]) = 2
  /\ saved[1] = <<[provider |-> "gemini", health |-> "unconfigured"], [provider |-> "openai", health |-> "healthy"]>>
  /\ Len(saved[2]) >= 2
  /\ saved[2][1] = [provider |-> "gemini", health |-> "error"]
  /\ saved[2][2] = [provider |-> "openai", health |-> "unconfigured"]
  /\ providerHealth["gemini"] = "error"
  /\ providerHealth["openai"] = "healthy"

\* C17 (as stated): a finished validateKey call has made exactly one probe
\* and returned true if the probe succeeded and false if it failed,
\* whichever of the three providers it was for
C17_AsStated == validating.stage = "done" => /\ validating.probes = 1
                                             /\ validating.probeOk # None
                                             /\ validating.result = validating.probeOk

\* the health the claim expects after the attempt call c finishes in this
\* step
ExpectedHealth(c) ==
  LET r == attempts'[c][Len(attempts'[c])]
  IN IF r.thrown = NoFailure THEN "healthy" ELSE IF lastError'[c].classification = "auth" THEN "unconfigured" ELSE "error"

\* C18: the step in which an attempt on a candidate finishes leaves that
\* candidate's health healthy after a success, unconfigured after an auth
\* failure and error after any other failure, and leaves every other
\* provider's health as it was; no other step writes the health store, so
\* a provider that was never attempted has no health recorded
C18_HealthRecording ==
  /\ [][\A c \in CallIds : IF FinishesAttempt(c)
                               THEN LET p == attempts'[c][Len(attempts'[c])].provider
                                    IN /\ providerHealth'[p] = ExpectedHealth(c)
                                       /\ \A q \in AIProvider \ {p} : providerHealth'[q] = providerHealth[q]
                               ELSE (\E d \in CallIds : FinishesAttempt(d)) \/ providerHealth' = providerHealth]_vars
  /\ [](\A p \in AIProvider : providerHealth[p] # Absent => \E c \in CallIds : AttemptsOn(c, p) # {})

\* gemini failed with an auth error, openai answered, anthropic was never
\* tried
C18_Witness ==
  /\ pc[1] = "returned"
  /\ Len(attempts[1]) = 2
  /\ lastError[1].classification = "auth"
  /\ providerHealth = [p \in AIProvider |-> IF p = attempts[1][1].provider THEN "unconfigured" ELSE IF p = attempts[1][2].provider THEN "healthy" ELSE Absent]

ValidationError == NewError(<<"Structured output validation failed">>)

\* the last finished attempt of call c failed with f, and nothing has been
\* attempted since
LastAttemptFailedWith(c, f) == Len(attempts[c]) > 0 /\ attempts[c][Len(attempts[c])].thrown = f

\* C20 (as stated): a missing credential is classified auth; a failed
\* structured validation is classified provider, records health error and,
\* when the call goes on to another candidate, gives the switch the reason
\* "provider"; a call that ends with the no-providers-available error ends
\* with kind provider
C20_AsStated ==
  \A c \in CallIds :
    /\ \A p \in AIProvider : LastAttemptFailedWith(c, MissingKeyError(p)) => lastError[c].classification = "auth"
    /\ LastAttemptFailedWith(c, ValidationError) =>
         /\ lastError[c].classification = "provider"
         /\ saved[c][Len(saved[c])].health = "error"
         /\ emitted[c][Len(emitted[c])].type = "provider_switch" => emitted[c][Len(emitted[c])].reason = "provider"
    /\ (pc[c] = "rejected" /\ outcome[c].error.message = NoProvidersError.message) => outcome[c].error.classification = "provider"

\* the switch events of a call, and the calls of options.onProviderSwitch
SwitchesEmitted(c) == SelectSeq(emitted[c], LAMBDA e : e.type = "provider_switch")
SwitchesCalledBack(c) == SelectSeq(callbacks[c], LAMBDA cb : cb.cb = "onProviderSwitch")

CandidatesOfCall(c) == <<Selected(c)>> \o SelectSeq(PROVIDER_ORDER, LAMBDA p : p # Selected(c))

\* the candidates that are configured; all of them when none is
ExpectedToTry(c) == IF \E k \in 1..3 : CandidatesOfCall(c)[k] \in Configured THEN SelectSeq(CandidatesOfCall(c), LAMBDA p : p \in Configured) ELSE CandidatesOfCall(c)

\* attempt k of call c failed at once for want of a key
FailedFast(c, k) ==
  /\ attempts[c][k].thrown = MissingKeyError(attempts[c][k].provider)
  /\ attempts[c][k].settled = "sync"
  /\ classifyError(attempts[c][k].provider, attempts[c][k].thrown).classification = "auth"
  /\ \E n \in 1..Len(saved[c]) : saved[c][n] = [provider |-> attempts[c][k].provider, health |-> "unconfigured"]

\* C22: a call attempts the configured candidates in candidate order; when
\* no candidate is configured it attempts the whole candidate list, every
\* attempt fails at once with kind auth and health unconfigured, and with
\* fallback enabled the call ends rejected with kind auth after three
\* attempts
C22_CredentialFiltering ==
  \A c \in CallIds : pc[c] # "idle" =>
    /\ providersToTry[c] = ExpectedToTry(c)
    /\ \A k \in 1..Len(ops[c]) : k <= Len(ExpectedToTry(c)) /\ ops[c][k].provider = ExpectedToTry(c)[k]
    /\ Configured = {} =>
         /\ Len(providersToTry[c]) = 3
         /\ \A k \in 1..Len(attempts[c]) : FailedFast(c, k)
         /\ pc[c] # "returned"
         /\ (Finished(c) /\ ~FallbackOff(c)) => (Len(attempts[c]) = 3 /\ outcome[c].error.classification = "auth")

\* nothing is configured, fallback is on, and the call was rejected after
\* trying anthropic, gemini and openai
C22_Witness ==
  /\ Configured = {}
  /\ pc[1] = "rejected"
  /\ ~FallbackOff(1)
  /\ [k \in 1..Len(attempts[1]) |-> attempts[1][k].provider] = <<"anthropic", "gemini", "openai">>
  /\ providerHealth = [p \in AIProvider |-> "unconfigured"]

\* what withTimeout yielded in attempt k of call c
Yielded(c, k) == [ok |-> attempts[c][k].ok, text |-> attempts[c][k].text, error |-> attempts[c][k].error]

\* wherever the two calls tried the same provider, it behaved the same
AdaptersAgree == \A j \in 1..Len(attempts[1]), k \in 1..Len(attempts[2]) : attempts[1][j].provider = attempts[2][k].provider => Yielded(1, j) = Yielded(2, k)

ProvidersAttempted(c) == [k \in 1..Len(attempts[c]) |-> attempts[c][k].provider]

\* C23: two calls that agree on the selected provider, the configured
\* providers, the fallback flag and the adapters' outcomes, the second made
\* when the first has left its health records behind, attempt the same
\* providers in the same order and end the same way; and whatever health
\* is recorded, a call starts with the first configured candidate
C23_HealthIndependence ==
  /\ (Finished(1) /\ Finished(2) /\ Selected(1) = Selected(2) /\ options[1].enableFallback = options[2].enableFallback /\ AdaptersAgree)
       => (ProvidersAttempted(1) = ProvidersAttempted(2) /\ outcome[1] = outcome[2])
  /\ \A c \in CallIds : pc[c] # "idle" => (providersToTry[c] = ExpectedToTry(c) /\ ops[c][1].provider = Selected(c))

\* both calls selected gemini, found it failing the same way and returned
\* the answer of openai; the second call started when the first had
\* recorded error for gemini and healthy for openai
C23_Witness ==
  /\ pc[1] = "returned" /\ pc[2] = "returned"
  /\ AdaptersAgree
  /\ saved[1] = <<[provider |-> "gemini", health |-> "error"], [provider |-> "openai", health |-> "healthy"]>>
  /\ ProvidersAttempted(2) = <<"gemini", "openai">>
  /\ outcome[2].result.provider = "openai"

\* C24 (as stated): the failure value handed to classifyError is, after the
\* call, what it was before the call
C24_AsStated == classifying.stage \in {"once", "twice"} => classifying.held = classifying.argument

\* the text a canned adapter answers with
CannedText(p) == IF p = "openai" THEN T_openai ELSE T_anthropic

\* the callbacks the adapter of p made during call c
AdapterCallbacks(c, p) == SelectSeq(callbacks[c], LAMBDA cb : (cb.cb = "onToolInvocation" /\ cb.provider = p) \/ (cb.cb = "onToken" /\ cb.token = CannedText(p)[1]))

\* C25: an attempt on openai or anthropic without a stored key is rejected
\* at once with the missing-key error of withProviderApiKey, of kind auth,
\* and the adapter's function was not invoked (no onToken, no
\* onToolInvocation); with a stored key the function was invoked exactly
\* once and the attempt's promise carries its result or its failure
C25_ScopedCredential ==
  \A c \in CallIds : \A k \in 1..Len(ops[c]) :
    LET p == ops[c][k].provider
    IN p \in {"openai", "anthropic"} =>
         IF p \notin providerKeys
           THEN /\ ops[c][k] = RejectedOp(p, MissingKeyError(p))
                /\ classifyError(p, ops[c][k].error).classification = "auth"
                /\ AdapterCallbacks(c, p) = <<>>
           ELSE /\ Len(SelectSeq(AdapterCallbacks(c, p), LAMBDA cb : cb.cb = "onToken")) = 1
                /\ \/ ops[c][k] = FulfilledOp(p, CannedText(p))
                   \/ ops[c][k].status = "rejected" /\ ops[c][k].error \in ThrownValues

\* openai was attempted without a stored key
C25_Witness ==
  /\ "openai" \notin providerKeys
  /\ Len(attempts[1]) >= 1
  /\ attempts[1][1].provider = "openai"
  /\ lastError[1].classification = "auth"
  /\ AdapterCallbacks(1, "openai") = <<>>

\* C26: the deadline timer of every attempt that has ended, whichever way,
\* is cancelled, and a call that has ended has no timer left
C26_TimerCleanup ==
  \A c \in CallIds :
    /\ \A k \in 1..Len(attempts[c]) : timers[c][k] = "cleared"
    /\ Finished(c) => \A k \in 1..Len(timers[c]) : timers[c][k] \in {"cleared", "unset"}

\* a call that went through a timeout, a failure of another kind and a
\* success, and has no timer left
C26_Witness ==
  /\ pc[1] = "returned"
  /\ Len(attempts[1]) = 3
  /\ attempts[1][1].error = TimeoutError(attempts[1][1].provider, timeoutMs[1])
  /\ ~attempts[1][2].ok /\ attempts[1][2].error.classification # "timeout"
  /\ attempts[1][3].ok
  /\ timers[1] = <<"cleared", "cleared", "cleared">>

\* C27 (as stated): a result with fallbackUsed = false comes from the
\* selected provider; a result from another provider has fallbackUsed =
\* true and a switch event before it
C27_AsStated ==
  \A c \in CallIds : pc[c] = "returned" =>
    /\ ~outcome[c].result.fallbackUsed => outcome[c].result.provider = Selected(c)
    /\ outcome[c].result.provider # Selected(c) => (outcome[c].result.fallbackUsed /\ SwitchesEmitted(c) # <<>>)

\* C27 (amended): a result with fallbackUsed = false comes from the first
\* provider of the filtered candidate list, with no switch event; that is
\* the selected provider when the selected provider is configured, and the
\* first configured candidate otherwise.  A result from any other provider
\* has fallbackUsed = true and follows a switch event to that provider
C27_FirstCandidate ==
  \A c \in CallIds : pc[c] = "returned" =>
    /\ providersToTry[c][1] = ExpectedToTry(c)[1]
    /\ ~outcome[c].result.fallbackUsed => (outcome[c].result.provider = providersToTry[c][1] /\ SwitchesEmitted(c) = <<>>)
    /\ (~outcome[c].result.fallbackUsed /\ Selected(c) \in Configured) => outcome[c].result.provider = Selected(c)
    /\ outcome[c].result.provider # providersToTry[c][1] =>
         /\ outcome[c].result.fallbackUsed
         /\ SwitchesEmitted(c) # <<>>
         /\ SwitchesEmitted(c)[Len(SwitchesEmitted(c))].to = outcome[c].result.provider

\* gemini is selected but has no key, openai has one: the answer comes
\* from openai with fallbackUsed = false and no switch event
C27_Witness ==
  /\ pc[1] = "returned"
  /\ Selected(1) = "gemini"
  /\ outcome[1].result.provider = "openai"
  /\ ~outcome[1].result.fallbackUsed
  /\ emitted[1] = <<HealthyEvent("openai")>>

\* the providers a call has emitted a healthy event for, and saved healthy
\* for, in order
HealthyEmitted(c) == SelectSeq(emitted[c], LAMBDA e : e.type = "provider_health" /\ e.health = "healthy")
HealthySaved(c) == SelectSeq(saved[c], LAMBDA w : w.health = "healthy")

AnsweredAttempts(c) == SelectSeq(attempts[c], LAMBDA r : r.ok)

ObserverThrewOn(c) == {k \in 1..Len(attempts[c]) : attempts[c][k].ok /\ attempts[c][k].observer # "none"}

\* C29 (as stated): when an observer throws while it is told of a
\* successful attempt, the call still returns that attempt's result, the
\* provider's recorded health is healthy when the call ends, and that
\* attempt is the last one of the call
C29_AsStated ==
  \A c \in CallIds : \A k \in ObserverThrewOn(c) :
    /\ Len(attempts[c]) = k
    /\ pc[c] = "returned"
    /\ outcome[c].result.provider = attempts[c][k].provider
    /\ outcome[c].result.text = attempts[c][k].text
    /\ providerHealth[attempts[c][k].provider] = "healthy"

\* the events of a call are in order: a switch event directly follows the
\* failure event of the provider it leaves, no health event of the
\* provider it leads to comes before it, and the j-th switch leads to the
\* provider of attempt j+1
EventsInOrder(c) ==
  /\ Len(ops[c]) <= Len(SwitchesEmitted(c)) + 1
  /\ \A j \in 1..Len(SwitchesEmitted(c)) : SwitchesEmitted(c)[j].from = providersToTry[c][j] /\ SwitchesEmitted(c)[j].to = ops[c][j + 1].provider
  /\ \A k \in SwitchEvents(c) :
       /\ k > 1
       /\ emitted[c][k - 1].type = "provider_health"
       /\ emitted[c][k - 1].provider = emitted[c][k].from
       /\ emitted[c][k - 1].health \in {"error", "unconfigured"}
       /\ \A j \in 1..(k - 1) : emitted[c][j].type = "provider_health" => emitted[c][j].provider # emitted[c][k].to

\* the callbacks a step adds to those of call c
CallbacksAdded(c) == SubSeq(callbacks'[c], Len(callbacks[c]) + 1, Len(callbacks'[c]))

\* a step that starts a further attempt of call c emits the switch event
\* to that attempt's provider last, and calls the callbacks of the
\* adapter it starts after onProviderSwitch
StartsAfterSwitch(c) ==
  (Len(ops[c]) > 0 /\ Len(ops'[c]) > Len(ops[c])) =>
    /\ Len(emitted'[c]) >= Len(emitted[c]) + 2
    /\ emitted'[c][Len(emitted'[c])].type = "provider_switch"
    /\ emitted'[c][Len(emitted'[c])].to = ops'[c][Len(ops'[c])].provider
    /\ \E m \in 1..Len(CallbacksAdded(c)) :
         /\ CallbacksAdded(c)[m] = OnProviderSwitch(emitted'[c][Len(emitted'[c])])
         /\ \A n \in 1..m : CallbacksAdded(c)[n].cb \notin {"onToken", "onToolInvocation"}

\* C30: in every step of a call the events stay in order (failure event of
\* candidate i-1, then the switch event from candidate i-1 to candidate i,
\* then the attempt on candidate i and its health events), and a call that
\* has returned or rejected emits no further event
C30_EventOrdering ==
  [][\A c \in CallIds :
       /\ EventsInOrder(c)'
       /\ StartsAfterSwitch(c)
       /\ Finished(c) => emitted'[c] = emitted[c]]_vars

\* the call fell back twice and returned; gemini, abandoned at its timeout,
\* answered after the call had returned (its tokens are the last callbacks)
C30_Witness ==
  /\ pc[1] = "returned"
  /\ Len(SwitchesEmitted(1)) = 2
  /\ ops[1][1].settled = "late" /\ ops[1][1].status = "fulfilled"
  /\ callbacks[1] # <<>> /\ callbacks[1][Len(callbacks[1])].cb = "onToken"
  /\ emitted[1][Len(emitted[1])] = HealthyEvent("anthropic")

====
